---- MODULE Spec2Model ----
(***************************************************************************)
(* A model of package config (src/config/config.go): the Loader, its       *)
(* functional options, Load, and GetPrintable with the decode pipeline.    *)
(*                                                                         *)
(* Go values are modelled as follows.                                      *)
(*   - A struct is a node [kind |-> "struct", fields |-> [name -> node]];  *)
(*     a field of a basic type is a node [kind |-> "leaf", type, val, def] *)
(*     where type is the Go type, val the text of the value and def the    *)
(*     text of the `default:"..."` struct tag (NoTag when there is none).  *)
(*     A field that is a slice of structs is a node [kind |-> "slice",     *)
(*     fields |-> [index -> struct]], the indices written "[0]", "[1]".    *)
(*   - A map[string]interface{} is a function from keys to entries; an     *)
(*     entry is a typed value [kind |-> "val", type, val], a nested map    *)
(*     [kind |-> "map", m |-> function] or a slice value as it is in the   *)
(*     structure [kind |-> "slice", m |-> [index -> struct]].              *)
(*   - A string the code builds or compares piecewise (a config key, an    *)
(*     environment variable name) is a sequence of tokens: identifiers     *)
(*     and the separator characters ".", "_" and "-".                      *)
(* The behaviour of the libraries config.go calls (viper, mapstructure,    *)
(* flatten, go-defaults) is modelled at the call sites.                    *)
(***************************************************************************)
EXTENDS Integers, Sequences, FiniteSets, TLC

VARIABLES
    loader,     \* the Loader: its provider l.v, a record (see getViperWithDefaults)
    given,      \* the options the Loader was constructed with
    env,        \* the process environment: variable name -> value
    fs,         \* the file system: <<dir, base name>> -> file
    config,     \* the structure handed to GetPrintable (the caller's memory)
    printable,  \* what the last GetPrintable returned
    last        \* the last call: its arguments, the state before it, its results

vars == <<loader, given, env, fs, config, printable, last>>

---------------------------------------------------------------------------
(* Values                                                                  *)

NoTag == "<no default tag>"
NoneYet == "<nothing>"

Leaf(t, v, d) == [kind |-> "leaf", type |-> t, val |-> v, def |-> d, fields |-> <<>>]
Struct(fields) == [kind |-> "struct", type |-> "struct", val |-> "", def |-> NoTag, fields |-> fields]
Slice(elems) == [kind |-> "slice", type |-> "slice", val |-> "", def |-> NoTag, fields |-> elems]
Val(t, v) == [kind |-> "val", type |-> t, val |-> v, m |-> <<>>]
Map(m) == [kind |-> "map", type |-> "map", val |-> "", m |-> m]
SliceVal(elems) == [kind |-> "slice", type |-> "slice", val |-> "", m |-> elems]

\* The reflect.Kind of a Go type of the model.
KindOf(t) == IF t = "SecretString" THEN "string" ELSE t

\* The zero value of a type, as text.
ZeroOf(t) == IF KindOf(t) = "int" THEN "0" ELSE ""

\* strconv.ParseInt succeeds on these texts.
IsIntText(s) == s \in {"0", "5", "7", "8", "9"}

---------------------------------------------------------------------------
(* Strings built piecewise: keys and environment variable names            *)

\* strings.ToLower and strings.ToUpper on the identifiers of the model; the
\* separators have no case.
ToLower(tok) ==
    CASE tok \in {"Name", "NAME", "name"} -> "name"
      [] tok \in {"DB", "db"}             -> "db"
      [] tok \in {"Port", "PORT", "port"} -> "port"
      [] tok \in {"APP", "app"}           -> "app"
      [] OTHER                            -> tok

ToUpper(tok) ==
    CASE tok \in {"Name", "NAME", "name"} -> "NAME"
      [] tok \in {"DB", "db"}             -> "DB"
      [] tok \in {"Port", "PORT", "port"} -> "PORT"
      [] tok \in {"APP", "app"}           -> "APP"
      [] OTHER                            -> tok

LowerAll(s) == [i \in 1..Len(s) |-> ToLower(s[i])]
UpperAll(s) == [i \in 1..Len(s) |-> ToUpper(s[i])]

\* strings.NewReplacer(old, new).Replace(s), old a separator character.
Replace(r, s) == [i \in 1..Len(s) |-> IF s[i] = r.old THEN r.new ELSE s[i]]

NoReplacer == [old |-> "", new |-> ""]

---------------------------------------------------------------------------
(* SecretString and the decode pipeline                                    *)

\* SecretString.String()
String(s) == "****************"

\* SecretString.Secret()
Secret(s) == s

\* The hook returns the data unchanged unless both the source and the
\* target type are SecretString; then it returns String() of it, a string.
SecretStringMaskHookFunc(f, t, data) ==
    IF f # "SecretString" THEN data
    ELSE IF t # "SecretString" THEN data
    ELSE Val("string", String(data.val))

\* mapstructure.StringToTimeDurationHookFunc: acts on a string decoded into a
\* time.Duration only.
StringToTimeDurationHookFunc(f, t, data) ==
    IF KindOf(f) # "string" THEN data
    ELSE IF t # "Duration" THEN data
    ELSE Val("Duration", data.val)

\* mapstructure.StringToSliceHookFunc(","): acts on a string decoded into a
\* slice only.
StringToSliceHookFunc(f, t, data) ==
    IF KindOf(f) # "string" \/ KindOf(t) # "slice" THEN data
    ELSE Val("slice", data.val)

\* The hook chain of Decode: ComposeDecodeHookFunc runs the hooks in order,
\* each on the previous one's result and that result's type.
DecodeHook(t, data) ==
    LET d1 == StringToTimeDurationHookFunc(data.type, t, data)
        d2 == StringToSliceHookFunc(d1.type, t, d1)
    IN  SecretStringMaskHookFunc(d2.type, t, d2)

\* The hook chain of viper's Unmarshal: the same without the masking hook.
ViperDecodeHook(t, data) ==
    LET d1 == StringToTimeDurationHookFunc(data.type, t, data)
    IN  StringToSliceHookFunc(d1.type, t, d1)

\* mapstructure's weakly typed decode of a basic value into a field of type
\* t, after the hooks: a string-kind field takes the text of a string or an
\* int; an int field takes an int, or a string that parses ("" reads as 0).
WeakOk(t, data) ==
    \/ KindOf(t) = "string"
    \/ KindOf(t) = "int" /\ KindOf(data.type) = "int"
    \/ KindOf(t) = "int" /\ KindOf(data.type) = "string"
                         /\ (data.val = "" \/ IsIntText(data.val))

WeakVal(t, data) ==
    IF KindOf(t) = "int" /\ KindOf(data.type) = "string" /\ data.val = ""
    THEN "0" ELSE data.val

\* decodeMapFromStruct: every field becomes an entry of the map under the
\* field's name, a nested struct becomes a nested map made afresh, a field
\* of any other kind (a slice of structs too) is put into the map as it is;
\* keys the map already holds are overwritten and its other keys stay.  The
\* hooks do not run on the fields: the values keep their types.
RECURSIVE StructToMap(_, _)
StructToMap(s, into) ==
    [f \in (DOMAIN into) \cup (DOMAIN s.fields) |->
        IF f \in DOMAIN s.fields
        THEN LET n == s.fields[f] IN
             IF n.kind = "struct" THEN Map(StructToMap(n, <<>>))
             ELSE IF n.kind = "slice" THEN SliceVal(n.fields)
             ELSE Val(n.type, n.val)
        ELSE into[f]]

\* decodeStructFromMap with the hook chain `hook`: a field whose key the map
\* holds is decoded from the entry, a field whose key is missing, or whose
\* entry does not decode, keeps its value.  `hook` names the chain: "Decode"
\* for this package's Decode, "viper" for viper's Unmarshal.
RunHook(hook, t, data) ==
    IF hook = "Decode" THEN DecodeHook(t, data) ELSE ViperDecodeHook(t, data)

\* The key of the map a field is decoded from: the field's name, or else a
\* key equal to it but for case; NoKey when the map has neither.
NoKey == "<no key>"

KeyFor(m, f) ==
    IF f \in DOMAIN m THEN f
    ELSE IF \E k \in DOMAIN m : ToLower(k) = ToLower(f)
         THEN CHOOSE k \in DOMAIN m : ToLower(k) = ToLower(f)
         ELSE NoKey

\* decodeStruct of a value that has the type of the target already: the
\* value is assigned, nothing in it is decoded and no hook runs on its fields.
DecodeSameType(data) == data

RECURSIVE MapToStruct(_, _, _)
MapToStruct(m, s, hook) ==
    Struct([f \in DOMAIN s.fields |->
        LET n == s.fields[f]
            k == KeyFor(m, f)
        IN
        IF k = NoKey THEN n
        ELSE IF n.kind = "struct"
             THEN IF m[k].kind = "map" THEN MapToStruct(m[k].m, n, hook) ELSE n
        ELSE IF n.kind = "slice"
             THEN IF m[k].kind = "slice"
                  THEN [n EXCEPT !.fields = [i \in DOMAIN m[k].m |-> DecodeSameType(m[k].m[i])]]
                  ELSE n
             ELSE IF m[k].kind # "val" THEN n
                  ELSE LET d == RunHook(hook, n.type, m[k]) IN
                       IF WeakOk(n.type, d)
                       THEN [n EXCEPT !.val = WeakVal(n.type, d)]
                       ELSE n])

\* Whether that decode reports an error.
RECURSIVE MapToStructFails(_, _, _)
MapToStructFails(m, s, hook) ==
    \E f \in { x \in DOMAIN s.fields : KeyFor(m, x) # NoKey } :
        LET n == s.fields[f]
            k == KeyFor(m, f)
        IN
        IF n.kind = "struct"
        THEN IF m[k].kind = "map" THEN MapToStructFails(m[k].m, n, hook) ELSE TRUE
        ELSE IF n.kind = "slice" THEN m[k].kind # "slice"
        ELSE IF m[k].kind # "val" THEN TRUE
             ELSE ~WeakOk(n.type, RunHook(hook, n.type, m[k]))

\* reflect.New(T): a zero value of the structure's type.
RECURSIVE ZeroStruct(_)
ZeroStruct(s) ==
    Struct([f \in DOMAIN s.fields |->
        LET n == s.fields[f] IN
        IF n.kind = "struct" THEN ZeroStruct(n)
        ELSE IF n.kind = "slice" THEN Slice(<<>>)
        ELSE [n EXCEPT !.val = ZeroOf(n.type)]])

\* json.MarshalIndent of the map: the text shows values, not their Go
\* types; a SecretString is written as the string it holds (the type has no
\* MarshalJSON), a struct as an object of its fields, a slice as an array.
RECURSIVE MarshalValue(_)
MarshalValue(n) ==
    IF n.kind = "leaf" THEN [kind |-> "text", val |-> n.val, m |-> <<>>]
    ELSE [kind |-> IF n.kind = "slice" THEN "array" ELSE "object",
          val  |-> "",
          m    |-> [f \in DOMAIN n.fields |-> MarshalValue(n.fields[f])]]

RECURSIVE Marshal(_)
Marshal(m) ==
    [k \in DOMAIN m |->
        IF m[k].kind = "map" THEN [kind |-> "object", val |-> "", m |-> Marshal(m[k].m)]
        ELSE IF m[k].kind = "slice"
             THEN [kind |-> "array", val |-> "",
                   m |-> [i \in DOMAIN m[k].m |-> MarshalValue(m[k].m[i])]]
        ELSE [kind |-> "text", val |-> m[k].val, m |-> <<>>]]

---------------------------------------------------------------------------
(* GetPrintable                                                            *)

\* The memory GetPrintable works on: the caller's structure at "config" and
\* the instance it allocates.  NewConfig gives the place of the new instance.
AliasedNewConfig(heap) == [heap |-> heap, ref |-> "config"]

NewConfig(heap) ==
    [heap |-> [r \in {"config", "newConfig"} |->
                 IF r = "newConfig" THEN ZeroStruct(heap["config"]) ELSE heap[r]],
     ref  |-> "newConfig"]

\* Decode(input, output) into a map and into a structure.
DecodeToMap(input, structMap) == StructToMap(input, structMap)

DecodeToStruct(structMap, output) == MapToStruct(structMap, output, "Decode")

GetPrintable(cfg) ==
    LET a    == NewConfig([r \in {"config"} |-> cfg])
        m1   == DecodeToMap(a.heap["config"], <<>>)
        h2   == [a.heap EXCEPT ![a.ref] = DecodeToStruct(m1, a.heap[a.ref])]
        m3   == DecodeToMap(h2[a.ref], m1)
    IN  [config |-> h2["config"], out |-> Marshal(m3), err |-> "nil"]

GetPrintableAct ==
    /\ LET r == GetPrintable(config) IN
        /\ config' = r.config
        /\ printable' = r.out
        /\ last' = [op |-> "GetPrintable", arg |-> config, err |-> r.err]
    /\ UNCHANGED <<loader, given, env, fs>>

---------------------------------------------------------------------------
(* The provider (viper.Viper) and the options                              *)

NoFile == <<>>

Nil == [type |-> "nil", got |-> <<>>]

\* viper.New()
NewViper ==
    [configName          |-> "config",
     configType          |-> "",
     configPaths         |-> <<>>,
     envPrefix           |-> "",
     envKeyReplacer      |-> NoReplacer,
     automaticEnvApplied |-> FALSE,
     env                 |-> {},     \* the bindings: <<key, variable name>>
     configFile          |-> NoFile, \* the file found, kept once found
     config              |-> <<>>]   \* the content of the file read

\* viper's setters: an empty name, type, prefix or path is ignored, a path
\* already registered is not added again, a new name forgets the file found.
SetConfigName(v, in) ==
    IF in # "" THEN [v EXCEPT !.configName = in, !.configFile = NoFile] ELSE v

SetConfigType(v, in) == IF in # "" THEN [v EXCEPT !.configType = in] ELSE v

SetEnvPrefix(v, in) == IF in # "" THEN [v EXCEPT !.envPrefix = in] ELSE v

AddConfigPath(v, in) ==
    IF in # "" /\ ~(\E i \in 1..Len(v.configPaths) : v.configPaths[i] = in)
    THEN [v EXCEPT !.configPaths = Append(@, in)] ELSE v

SetEnvKeyReplacer(v, old, new) ==
    [v EXCEPT !.envKeyReplacer = [old |-> old, new |-> new]]

getViperWithDefaults ==
    SetEnvKeyReplacer(SetConfigType(SetConfigName(NewViper, "config"), "yaml"), ".", "_")

\* A provider the caller configured itself and hands to WithViper.
CustomViper(id) ==
    [SetConfigName(NewViper, "svc") EXCEPT !.automaticEnvApplied = TRUE]

\* The options.  An option is [opt, in, new]; WithViper's `in` names the
\* caller's provider.
WithViper(in) == [opt |-> "WithViper", in |-> in, new |-> ""]
WithName(in) == [opt |-> "WithName", in |-> in, new |-> ""]
WithPath(in) == [opt |-> "WithPath", in |-> in, new |-> ""]
WithType(in) == [opt |-> "WithType", in |-> in, new |-> ""]
WithEnvPrefix(in) == [opt |-> "WithEnvPrefix", in |-> in, new |-> ""]
WithEnvKeyReplacer(old, new) == [opt |-> "WithEnvKeyReplacer", in |-> old, new |-> new]

\* option(loader): what each option's closure does to the Loader.
KeepViperOption(l, o) ==
    CASE o.opt = "WithViper"          -> l
      [] o.opt = "WithName"           -> SetConfigName(l, o.in)
      [] o.opt = "WithPath"           -> AddConfigPath(l, o.in)
      [] o.opt = "WithType"           -> SetConfigType(l, o.in)
      [] o.opt = "WithEnvPrefix"      -> SetEnvPrefix(l, o.in)
      [] o.opt = "WithEnvKeyReplacer" -> SetEnvKeyReplacer(l, o.in, o.new)

ApplyOption(l, o) ==
    CASE o.opt = "WithViper"          -> CustomViper(o.in)
      [] o.opt = "WithName"           -> SetConfigName(l, o.in)
      [] o.opt = "WithPath"           -> AddConfigPath(l, o.in)
      [] o.opt = "WithType"           -> SetConfigType(l, o.in)
      [] o.opt = "WithEnvPrefix"      -> SetEnvPrefix(l, o.in)
      [] o.opt = "WithEnvKeyReplacer" -> SetEnvKeyReplacer(l, o.in, o.new)

RECURSIVE ApplyOptions(_, _)
ApplyOptions(l, options) ==
    IF options = <<>> THEN l
    ELSE ApplyOptions(ApplyOption(l, Head(options)), Tail(options))

NewLoader(options) == ApplyOptions(getViperWithDefaults, options)

---------------------------------------------------------------------------
(* Load                                                                    *)

\* An argument of Load: [ptr, kind, val], whether it is a pointer, the kind
\* of the value (of the pointee, for a pointer) and the value.
verifyParamAcceptsValues(param) ==
    IF param.kind # "struct"
    THEN [type |-> "require ptr to a struct for Load", got |-> <<param.kind>>]
    ELSE Nil

verifyParamIsPtrToStructElsePanic(param) ==
    IF ~param.ptr
    THEN [type |-> "require ptr to a struct for Load", got |-> <<param.kind>>]
    ELSE IF param.kind # "struct"
         THEN [type |-> "require ptr to a struct for Load",
               got  |-> <<"ptr to", param.kind>>]
         ELSE Nil

AutomaticEnvNotCalled(v) == v

AutomaticEnv(v) == [v EXCEPT !.automaticEnvApplied = TRUE]

\* The files viper reads.
SupportedExts == {"json", "toml", "yaml", "yml", "properties", "props", "prop", "hcl"}

\* findConfigFile: the first search path that holds a file of the name.
RECURSIVE findConfigFile(_, _, _)
findConfigFile(v, files, i) ==
    IF i > Len(v.configPaths) THEN NoFile
    ELSE LET place == <<v.configPaths[i], v.configName>> IN
         IF place \in DOMAIN files /\ files[place].state # "missing" THEN place
         ELSE findConfigFile(v, files, i + 1)

\* ReadInConfig: [v, err].  The file found is kept; a type that is set must
\* be a supported one (an unset type is read off the file found).
ReadInConfig(v, files) ==
    LET file == IF v.configFile # NoFile THEN v.configFile
                ELSE findConfigFile(v, files, 1)
        v1   == [v EXCEPT !.configFile = file]
    IN  IF file = NoFile THEN [v |-> v, err |-> "ConfigFileNotFoundError"]
        ELSE IF v.configType # "" /\ v.configType \notin SupportedExts
             THEN [v |-> v1, err |-> "UnsupportedConfigError"]
        ELSE IF files[file].state = "missing"
             THEN [v |-> v1, err |-> "PathError"]
        ELSE IF files[file].state = "corrupt"
             THEN [v |-> v1, err |-> "ConfigParseError"]
        ELSE [v |-> [v1 EXCEPT !.config = files[file].content], err |-> "nil"]

\* Load's test of ReadInConfig's error.
EveryReadErrorTolerated(err) == FALSE

ReadErrorIsFatal(err) == err # "nil" /\ err # "ConfigFileNotFoundError"

\* flatten.Flatten(structMap, "", flatten.DotStyle): the keys of the leaves.
RECURSIVE Flatten(_, _)
Flatten(m, prefix) ==
    UNION { LET key == IF prefix = <<>> THEN <<k>> ELSE prefix \o <<".", k>> IN
            IF m[k].kind = "map" THEN Flatten(m[k].m, key) ELSE {key}
          : k \in DOMAIN m }

TopLevelStructKeys(cfg) == { <<k>> : k \in DOMAIN cfg.fields }

getFlattenedStructKeys(cfg) == Flatten(StructToMap(cfg, <<>>), <<>>)

\* mergeWithEnvPrefix
mergeWithEnvPrefix(v, key) ==
    IF v.envPrefix # "" THEN UpperAll(<<v.envPrefix, "_">> \o key)
    ELSE UpperAll(key)

\* BindEnv(key): the key is bound, in lower case, to the variable name made
\* of the prefix and the key.
BindEnv(v, key) ==
    [v EXCEPT !.env = @ \cup {<<LowerAll(key), mergeWithEnvPrefix(v, LowerAll(key))>>}]

RECURSIVE BindAll(_, _)
BindAll(v, keys) ==
    IF keys = {} THEN v
    ELSE LET k == CHOOSE x \in keys : TRUE IN BindAll(BindEnv(v, k), keys \ {k})

\* getEnv: the replacer is applied to the name; a variable that is not set,
\* or set to the empty string, counts as not set.
EnvName(v, envkey) == Replace(v.envKeyReplacer, envkey)

EnvSet(v, e, envkey) ==
    EnvName(v, envkey) \in DOMAIN e /\ e[EnvName(v, envkey)] # ""

\* viper's lookup of a key: the environment (automatic, then bound), then
\* the file.  NotFound when no source has it.
NotFound == [kind |-> "nil", type |-> "nil", val |-> "", m |-> <<>>]

FindFileFirst(v, e, key) ==
    IF key \in DOMAIN v.config THEN v.config[key]
    ELSE IF v.automaticEnvApplied /\ EnvSet(v, e, mergeWithEnvPrefix(v, key))
    THEN Val("string", e[EnvName(v, mergeWithEnvPrefix(v, key))])
    ELSE NotFound

Find(v, e, key) ==
    IF v.automaticEnvApplied /\ EnvSet(v, e, mergeWithEnvPrefix(v, key))
    THEN Val("string", e[EnvName(v, mergeWithEnvPrefix(v, key))])
    ELSE IF \E b \in v.env : b[1] = key /\ EnvSet(v, e, b[2])
    THEN LET b == CHOOSE b \in v.env : b[1] = key /\ EnvSet(v, e, b[2])
         IN  Val("string", e[EnvName(v, b[2])])
    ELSE IF key \in DOMAIN v.config THEN v.config[key]
    ELSE NotFound

\* AllKeys: the bound keys and the keys of the file.
AllKeys(v) == { b[1] : b \in v.env } \cup DOMAIN v.config

\* AllSettings: the nested map of every key that has a value.
RECURSIVE Nest(_)
Nest(flat) ==
    [t \in { k[1] : k \in DOMAIN flat } |->
        IF <<t>> \in DOMAIN flat THEN flat[<<t>>]
        ELSE Map(Nest([k \in { SubSeq(x, 3, Len(x)) : x \in { y \in DOMAIN flat : y[1] = t } }
                        |-> flat[<<t, ".">> \o k]]))]

AllSettings(v, e) ==
    Nest([k \in { x \in AllKeys(v) : Find(v, e, x) # NotFound } |-> Find(v, e, k)])

\* defaults.SetDefaults: a field whose value is the zero value of its type
\* takes the text of its default tag, an int field only when the text parses.
SetDefaultsSkipped(cfg) == cfg

RECURSIVE SetDefaultsOverwrite(_)
SetDefaultsOverwrite(cfg) ==
    Struct([f \in DOMAIN cfg.fields |->
        LET n == cfg.fields[f] IN
        IF n.kind = "struct" THEN SetDefaultsOverwrite(n)
        ELSE IF n.def # NoTag /\ (KindOf(n.type) = "int" => IsIntText(n.def))
             THEN [n EXCEPT !.val = n.def]
             ELSE n])

RECURSIVE SetDefaults(_)
SetDefaults(cfg) ==
    Struct([f \in DOMAIN cfg.fields |->
        LET n == cfg.fields[f] IN
        IF n.kind = "struct" THEN SetDefaults(n)
        ELSE IF n.val = ZeroOf(n.type) /\ n.def # NoTag
                /\ (KindOf(n.type) = "int" => IsIntText(n.def))
             THEN [n EXCEPT !.val = n.def]
             ELSE n])

\* Unmarshal: AllSettings decoded into the structure with viper's hooks.
Unmarshal(v, e, cfg) == MapToStruct(AllSettings(v, e), cfg, "viper")

UnmarshalFails(v, e, cfg) == MapToStructFails(AllSettings(v, e), cfg, "viper")

\* Load(config): [loader, config, err, read], the provider and the
\* destination after the call, the error returned and what ReadInConfig said.
Load(l, param, e, files) ==
    LET verr == verifyParamIsPtrToStructElsePanic(param) IN
    IF verr # Nil
    THEN [loader |-> l, config |-> param.val, err |-> verr, read |-> "not read"]
    ELSE
    LET v1 == AutomaticEnv(l)
        rd == ReadInConfig(v1, files)
    IN  IF ReadErrorIsFatal(rd.err)
        THEN [loader |-> rd.v, config |-> param.val,
              err |-> [type |-> "unable to read configs using viper", got |-> <<rd.err>>],
              read |-> rd.err]
        ELSE
        LET v2 == BindAll(rd.v, getFlattenedStructKeys(param.val))
            d1 == SetDefaults(param.val)
        IN  [loader |-> v2,
             config |-> Unmarshal(v2, e, d1),
             err    |-> IF UnmarshalFails(v2, e, d1)
                        THEN [type |-> "unable to load config to struct", got |-> <<>>]
                        ELSE Nil,
             read   |-> rd.err]

---------------------------------------------------------------------------
(* The inputs: destinations, environments, files, options                  *)

MaxEnvVars == 1
MaxOptions == 3

\* The destinations of the Load calls, of two types,
\*   struct { Name string `default:"d"`; DB struct { Port int `default:"9"` } }
\*   struct { Name string; DB struct { Port int } }
\* each field holding its zero value or another one.
DestStructs ==
    { Struct([Name |-> Leaf("string", v1, IF tagged THEN "d" ELSE NoTag),
              DB   |-> Struct([Port |-> Leaf("int", v2, IF tagged THEN "9" ELSE NoTag)])])
      : v1 \in {"", "p"}, v2 \in {"0", "5"}, tagged \in BOOLEAN }

Params ==
    { [ptr |-> TRUE, kind |-> "struct", val |-> d] : d \in DestStructs }
    \cup { [ptr |-> FALSE, kind |-> "struct",
            val |-> Struct([Name |-> Leaf("string", "", "d"),
                            DB   |-> Struct([Port |-> Leaf("int", "5", "9")])])] }
    \cup { [ptr |-> b, kind |-> "int", val |-> Leaf("int", "5", NoTag)] : b \in BOOLEAN }
    \cup { [ptr |-> b, kind |-> "invalid", val |-> Leaf("invalid", "", NoTag)] : b \in BOOLEAN }

EnvNames ==
    { <<"NAME">>, <<"DB", "_", "PORT">>,
      <<"APP", "_", "NAME">>, <<"APP", "_", "DB", "_", "PORT">> }

\* "e" is no number; the empty string is a variable set to nothing.
EnvValues(name) == IF name[Len(name)] = "NAME" THEN {"", "e"} ELSE {"", "7", "e"}

Envs ==
    UNION { { f \in [S -> {"", "7", "e"}] : \A n \in S : f[n] \in EnvValues(n) }
            : S \in { T \in SUBSET EnvNames : Cardinality(T) <= MaxEnvVars } }

FilePlaces == { <<".", "config">>, <<".", "app">> }

FileContents ==
    { [k \in {<<"name">>} |-> Val("string", "f")],
      [k \in {<<"db", ".", "port">>} |-> Val("int", "8")],
      [k \in {<<"name">>, <<"db", ".", "port">>} |->
          IF k = <<"name">> THEN Val("string", "f") ELSE Val("int", "8")] }

Files ==
    { [state |-> "missing", content |-> <<>>], [state |-> "corrupt", content |-> <<>>] }
    \cup { [state |-> "ok", content |-> c] : c \in FileContents }

\* No file, or one file at one of the places.
FileSystems ==
    { [p \in FilePlaces |-> IF p = q THEN f ELSE [state |-> "missing", content |-> <<>>]]
      : q \in FilePlaces, f \in Files }

\* The Loaders the Load calls are made on.
LoaderOptions ==
    { <<>>,
      <<WithPath(".")>>,
      <<WithEnvPrefix("app")>>,
      <<WithPath("."), WithEnvPrefix("app")>>,
      <<WithPath("."), WithName("app")>>,
      <<WithPath("."), WithEnvKeyReplacer("-", "_")>>,
      <<WithViper("custom"), WithPath(".")>> }

\* The options NewLoader is called with.
Options ==
    { WithViper("custom"),
      WithName("app"), WithName("cfg"), WithName(""),
      WithPath("."), WithPath("/etc"),
      WithType("json"),
      WithEnvPrefix("app"),
      WithEnvKeyReplacer("-", "_") }

LoadAct ==
    /\ \E param \in Params :
         \E r \in {Load(loader, param, env, fs)} :
           /\ loader' = r.loader
           /\ last' = [op |-> "Load", arg |-> param, pre |-> loader,
                       post |-> r.config, err |-> r.err, read |-> r.read]
    /\ UNCHANGED <<given, env, fs, config, printable>>

\* NewLoader(options...), called with one option more than the last time.
NewLoaderAct ==
    /\ Len(given) < MaxOptions
    /\ \E o \in Options :
         /\ loader' = NewLoader(Append(given, o))
         /\ given' = Append(given, o)
    /\ last' = [op |-> "NewLoader"]
    /\ UNCHANGED <<env, fs, config, printable>>

---------------------------------------------------------------------------
(* Structures handed to GetPrintable                                       *)

MaxDepth == 2

Mask == "****************"

PrintFields == {"A", "B"}

PrintLeaves ==
    { Leaf("string", "a", NoTag),
      Leaf("SecretString", "hunter2", NoTag),
      Leaf("SecretString", Mask, NoTag) }

\* A field of type []struct { A SecretString; B string } with one element.
PrintSlices ==
    { Slice([i \in {"[0]"} |->
               Struct([A |-> Leaf("SecretString", "hunter2", NoTag),
                       B |-> Leaf("string", "a", NoTag)])]) }

RECURSIVE PrintStructs(_)
PrintStructs(d) ==
    IF d = 0 THEN {}
    ELSE LET sub == PrintLeaves \cup PrintSlices \cup PrintStructs(d - 1)
         IN  { Struct(f) : f \in [PrintFields -> sub] }

InitPrint ==
    /\ loader = NewLoader(<<>>)
    /\ given = <<>>
    /\ env = <<>>
    /\ fs = <<>>
    /\ config \in PrintStructs(MaxDepth)
    /\ printable = NoneYet
    /\ last = [op |-> "none"]

NextPrint == GetPrintableAct

SpecPrint == InitPrint /\ [][NextPrint]_vars

---------------------------------------------------------------------------
(* What the properties below speak of                                      *)

RECURSIVE LeafPaths(_)
LeafPaths(s) ==
    UNION { IF s.fields[f].kind \in {"struct", "slice"}
            THEN { <<f>> \o p : p \in LeafPaths(s.fields[f]) }
            ELSE { <<f>> }
          : f \in DOMAIN s.fields }

RECURSIVE NodeAt(_, _)
NodeAt(s, p) ==
    IF Len(p) = 1 THEN s.fields[p[1]] ELSE NodeAt(s.fields[p[1]], Tail(p))

\* The text GetPrintable's output holds under a field path; NoText when the
\* output has no such key.
NoText == "<no such key>"

RECURSIVE TextAt(_, _)
TextAt(out, p) ==
    IF p[1] \notin DOMAIN out THEN NoText
    ELSE IF Len(p) = 1 THEN (IF out[p[1]].kind = "text" THEN out[p[1]].val ELSE NoText)
    ELSE IF out[p[1]].kind \in {"object", "array"} THEN TextAt(out[p[1]].m, Tail(p))
    ELSE NoText

RECURSIVE Texts(_)
Texts(out) ==
    UNION { IF out[k].kind \in {"object", "array"} THEN Texts(out[k].m) ELSE { out[k].val }
          : k \in DOMAIN out }

\* The config key of a field path: a.b, in lower case.
RECURSIVE PathKey(_)
PathKey(p) ==
    IF Len(p) = 1 THEN <<ToLower(p[1])>>
    ELSE <<ToLower(p[1]), ".">> \o PathKey(Tail(p))

\* The variable P_A_B of a field path a.b under prefix P.
RECURSIVE UnderscoreName(_)
UnderscoreName(p) ==
    IF Len(p) = 1 THEN <<ToUpper(p[1])>>
    ELSE <<ToUpper(p[1]), "_">> \o UnderscoreName(Tail(p))

PrefixedName(prefix, p) ==
    IF prefix = "" THEN UnderscoreName(p)
    ELSE <<ToUpper(prefix), "_">> \o UnderscoreName(p)

LastLoad == last.op = "Load"
ValidParam == last.arg.ptr /\ last.arg.kind = "struct"
Succeeded == last.err = Nil
PastRead == last.read \in {"nil", "ConfigFileNotFoundError"}

\* The variable the Loader looks up for a field path, and whether the
\* environment gives it a value (set, and not to the empty string, which
\* the provider takes for unset).
LookedUpName(p) == EnvName(loader, mergeWithEnvPrefix(loader, PathKey(p)))
EnvGives(name) == name \in DOMAIN env /\ env[name] # ""

\* Whether the config file the Loader found gives the field path a value.
FileGives(p) ==
    /\ loader.configFile # NoFile
    /\ fs[loader.configFile].state = "ok"
    /\ PathKey(p) \in DOMAIN fs[loader.configFile].content
FileValue(p) == fs[loader.configFile].content[PathKey(p)].val

---------------------------------------------------------------------------
(* Properties                                                              *)

\* C1: after a successful Load every field holds the value of the
\* highest-priority source that sets it: the environment variable's value
\* when the environment gives one (whatever the file and the default say),
\* else the file's value when the file gives one (whatever the default says).
C1_Precedence ==
    (LastLoad /\ ValidParam /\ Succeeded) =>
        \A p \in LeafPaths(last.post) :
            /\ EnvGives(LookedUpName(p)) =>
                   NodeAt(last.post, p).val = env[LookedUpName(p)]
            /\ (~EnvGives(LookedUpName(p)) /\ FileGives(p)) =>
                   NodeAt(last.post, p).val = FileValue(p)

C1_Witness ==
    /\ LastLoad /\ ValidParam /\ Succeeded
    /\ \E p \in LeafPaths(last.post) :
         /\ EnvGives(LookedUpName(p))
         /\ FileGives(p)
         /\ NodeAt(last.arg.val, p).def # NoTag
         /\ NodeAt(last.post, p).val = env[LookedUpName(p)]
         /\ NodeAt(last.post, p).val # FileValue(p)

\* C2: after a successful Load that found no config file, in an environment
\* that sets no variable the Loader looks up, every field that declares a
\* default and held its zero value before the call holds the default.
C2_DefaultsOnly ==
    (/\ LastLoad /\ ValidParam /\ Succeeded
     /\ last.read = "ConfigFileNotFoundError"
     /\ \A p \in LeafPaths(last.post) : LookedUpName(p) \notin DOMAIN env) =>
        \A p \in LeafPaths(last.post) :
            LET before == NodeAt(last.arg.val, p) IN
            (before.def # NoTag /\ before.val = ZeroOf(before.type)) =>
                NodeAt(last.post, p).val = before.def

C2_Witness ==
    /\ LastLoad /\ ValidParam /\ Succeeded
    /\ last.read = "ConfigFileNotFoundError"
    /\ \A p \in LeafPaths(last.post) : LookedUpName(p) \notin DOMAIN env
    /\ \A p \in LeafPaths(last.post) :
         /\ NodeAt(last.arg.val, p).def # NoTag
         /\ NodeAt(last.arg.val, p).val = ZeroOf(NodeAt(last.arg.val, p).type)
         /\ NodeAt(last.post, p).val = NodeAt(last.arg.val, p).def

\* C3: a field that holds a non-zero value when Load is called is never
\* replaced by its default, and when neither the environment nor the file
\* gives it a value it holds the same value after the call.
C3_NonZeroKept ==
    (LastLoad /\ ValidParam) =>
        \A p \in LeafPaths(last.post) :
            LET before == NodeAt(last.arg.val, p) IN
            before.val # ZeroOf(before.type) =>
                /\ NodeAt(last.post, p).val # before.def
                /\ (~EnvGives(LookedUpName(p)) /\ ~FileGives(p)) =>
                       NodeAt(last.post, p).val = before.val

C3_Witness ==
    /\ LastLoad /\ ValidParam /\ Succeeded
    /\ \E p \in LeafPaths(last.post) :
         /\ NodeAt(last.arg.val, p).val # ZeroOf(NodeAt(last.arg.val, p).type)
         /\ NodeAt(last.arg.val, p).def # NoTag
         /\ NodeAt(last.post, p).val = NodeAt(last.arg.val, p).val

\* C5: Load of an argument that is no pointer, or a pointer to something that
\* is no struct, returns the error that names the kind received and changes
\* nothing: the provider and the argument are as before the call.
C5_InvalidArgument ==
    (LastLoad /\ ~ValidParam) =>
        /\ last.err.type = "require ptr to a struct for Load"
        /\ last.err.got = (IF last.arg.ptr THEN <<"ptr to", last.arg.kind>>
                           ELSE <<last.arg.kind>>)
        /\ loader = last.pre
        /\ last.post = last.arg.val

C5_Witness ==
    /\ LastLoad
    /\ ~last.arg.ptr /\ last.arg.kind = "struct"
    /\ last.err.got = <<"struct">>
    /\ ~loader.automaticEnvApplied

\* C6: a config file that is not found does not make Load fail at the read:
\* Load goes on to bind every key; any other failure of the read makes Load
\* return the read error with no env binding added and the destination as
\* it was.
C6_ReadErrors ==
    (LastLoad /\ ValidParam) =>
        /\ last.read = "ConfigFileNotFoundError" =>
              /\ last.err.type # "unable to read configs using viper"
              /\ \A p \in LeafPaths(last.arg.val) :
                    \E b \in loader.env : b[1] = PathKey(p)
        /\ last.read \notin {"nil", "ConfigFileNotFoundError"} =>
              /\ last.err = [type |-> "unable to read configs using viper",
                             got |-> <<last.read>>]
              /\ loader.env = last.pre.env
              /\ last.post = last.arg.val

C6_Witness ==
    /\ LastLoad /\ ValidParam
    /\ last.read = "ConfigParseError"
    /\ last.err.type = "unable to read configs using viper"
    /\ loader.env = {}
    /\ \E p \in LeafPaths(last.arg.val) :
         /\ NodeAt(last.arg.val, p).def # NoTag
         /\ NodeAt(last.post, p).val = ZeroOf(NodeAt(last.post, p).type)

\* C7: a Load that gets past the file read has bound every leaf field path
\* of the destination, nested ones included; and under the "." to "_" rule
\* a variable P_A_B set (to a value that is not empty) for a field a.b that
\* the file does not set and that has no default is the field's value after
\* a successful Load.
C7_EveryLeafBound ==
    (LastLoad /\ ValidParam /\ PastRead) =>
        /\ \A p \in LeafPaths(last.arg.val) :
              \E b \in loader.env : b[1] = PathKey(p)
        /\ (Succeeded /\ loader.envKeyReplacer = [old |-> ".", new |-> "_"]) =>
              \A p \in LeafPaths(last.arg.val) :
                  LET name == PrefixedName(loader.envPrefix, p) IN
                  (/\ EnvGives(name)
                   /\ ~FileGives(p)
                   /\ NodeAt(last.arg.val, p).def = NoTag) =>
                      NodeAt(last.post, p).val = env[name]

C7_Witness ==
    /\ LastLoad /\ ValidParam /\ Succeeded
    /\ loader.envPrefix = "app"
    /\ \E p \in LeafPaths(last.arg.val) :
         /\ Len(p) = 2
         /\ EnvGives(PrefixedName("app", p))
         /\ ~FileGives(p)
         /\ NodeAt(last.arg.val, p).def = NoTag
         /\ NodeAt(last.arg.val, p).val # env[PrefixedName("app", p)]
         /\ NodeAt(last.post, p).val = env[PrefixedName("app", p)]

\* C8, as claimed: the provider's file name, file type, search paths, env
\* prefix, key translation rule, automatic-env setting and env bindings are
\* after a Load what they were before it.
C8_LoaderUntouched ==
    LastLoad =>
        /\ loader.configName = last.pre.configName
        /\ loader.configType = last.pre.configType
        /\ loader.configPaths = last.pre.configPaths
        /\ loader.envPrefix = last.pre.envPrefix
        /\ loader.envKeyReplacer = last.pre.envKeyReplacer
        /\ loader.automaticEnvApplied = last.pre.automaticEnvApplied
        /\ loader.env = last.pre.env

\* C8, amended: a Load leaves the file name, file type, search paths, env
\* prefix and key translation rule alone; a Load that accepts its argument
\* turns automatic env on, and one that gets past the file read adds the
\* bindings of the destination's leaf keys and no other; a Load that
\* rejects its argument leaves the provider as it was.  For this
\* destination type the outcome is that of the same Load on a Loader just
\* made from the same options.
C8_OptionsUntouched ==
    LastLoad =>
        /\ loader.configName = last.pre.configName
        /\ loader.configType = last.pre.configType
        /\ loader.configPaths = last.pre.configPaths
        /\ loader.envPrefix = last.pre.envPrefix
        /\ loader.envKeyReplacer = last.pre.envKeyReplacer
        /\ ValidParam => loader.automaticEnvApplied
        /\ ~ValidParam => loader = last.pre
        /\ (ValidParam /\ ~PastRead) => loader.env = last.pre.env
        /\ (ValidParam /\ PastRead) =>
              { b[1] : b \in loader.env } =
                  { b[1] : b \in last.pre.env }
                      \cup { PathKey(p) : p \in LeafPaths(last.arg.val) }
        /\ LET fresh == Load(NewLoader(given), last.arg, env, fs) IN
              /\ last.post = fresh.config
              /\ last.err = fresh.err

C8_Witness ==
    /\ LastLoad /\ ValidParam /\ Succeeded
    /\ ~last.pre.automaticEnvApplied /\ loader.automaticEnvApplied
    /\ last.pre.env = {} /\ loader.env # {}
    /\ loader.envPrefix = "app"

LastViper ==
    IF \E i \in 1..Len(given) : given[i].opt = "WithViper"
    THEN CHOOSE i \in 1..Len(given) :
            /\ given[i].opt = "WithViper"
            /\ \A j \in (i + 1)..Len(given) : given[j].opt # "WithViper"
    ELSE 0

InEffect(kind) ==
    { i \in (LastViper + 1)..Len(given) :
        /\ given[i].opt = kind
        /\ (kind # "WithEnvKeyReplacer" => given[i].in # "") }

Deciding(kind) == CHOOSE i \in InEffect(kind) : \A j \in InEffect(kind) : j <= i

FirstGiven(path) ==
    CHOOSE i \in InEffect("WithPath") :
        /\ given[i].in = path
        /\ \A j \in InEffect("WithPath") : given[j].in = path => i <= j

C4_SecretsMasked ==
    last.op = "GetPrintable" =>
        \A p \in LeafPaths(last.arg) :
            LET n == NodeAt(last.arg, p) IN
            (n.type = "SecretString" /\ n.val # Mask) =>
                /\ TextAt(printable, p) = Mask
                /\ n.val \notin Texts(printable)

\* C10: GetPrintable leaves the structure it is given as it was: every
\* field holds the value it held before the call, and Secret() of every
\* SecretString field is still the real value.
C10_InputUnchanged ==
    last.op = "GetPrintable" =>
        /\ config = last.arg
        /\ \A p \in LeafPaths(last.arg) :
              NodeAt(last.arg, p).type = "SecretString" =>
                  Secret(NodeAt(config, p).val) = NodeAt(last.arg, p).val

C10_Witness ==
    /\ last.op = "GetPrintable"
    /\ \E p \in LeafPaths(config) :
         /\ NodeAt(config, p).type = "SecretString"
         /\ Secret(NodeAt(config, p).val) = "hunter2"
         /\ TextAt(printable, p) = Mask


Init ==
    /\ given \in LoaderOptions
    /\ loader = NewLoader(given)
    /\ env \in Envs
    /\ fs \in FileSystems
    /\ config = NoneYet
    /\ printable = NoneYet
    /\ last = [op |-> "none"]

Next == LoadAct

Spec == Init /\ [][Next]_vars

InitNew ==
    /\ given = <<>>
    /\ loader = NewLoader(given)
    /\ env = <<>>
    /\ fs = <<>>
    /\ config = NoneYet
    /\ printable = NoneYet
    /\ last = [op |-> "none"]

NextNew == NewLoaderAct

SpecNew == InitNew /\ [][NextNew]_vars

====
